---- MODULE Spec2Model ----
(***************************************************************************)
(* Model of clippy_lints/src/eta_reduction.rs: the REDUNDANT_CLOSURE lint. *)
(* check_closure inspects one expression; when it is a closure whose body  *)
(* is a single call or method call that forwards the closure's parameters, *)
(* a lint is emitted with the callee as the suggested replacement.         *)
(*                                                                         *)
(* The HIR and the answers of the typing context (cx) are inputs: they are *)
(* drawn from bounded sets when check_closure is applied.                  *)
(***************************************************************************)
EXTENDS Naturals, Sequences, FiniteSets, TLC

VARIABLES
    expr,   \* the expression handed to check_closure
    cx,     \* the answers of the LateContext queries about that expression
    lints,  \* the lints emitted by span_lint_and_then, in order
    pc      \* "idle" before check_closure has run, "done" after

vars == <<expr, cx, lints, pc>>

----------------------------------------------------------------------------
(* Bounds *)

\* longest closure parameter list and longest call argument list
MaxArity == 2

\* deepest nesting of Ref/Array/Slice in the types given to the matchers
MaxTyDepth == 2

----------------------------------------------------------------------------
(* Option<T> *)

None == [some |-> FALSE]
Some(v) == [some |-> TRUE, val |-> v]

Min(m, n) == IF m <= n THEN m ELSE n

----------------------------------------------------------------------------
(* ty::TyKind: the variants the matchers tell apart, and Float for the rest. *)
(* Int carries its width, which the matchers ignore; the length of an array *)
(* and the substitutions of an ADT, ignored as well, are left out.          *)

BaseTys ==
    { [kind |-> "Bool"], [kind |-> "Char"], [kind |-> "Uint"],
      [kind |-> "Int", ity |-> "i32"], [kind |-> "Int", ity |-> "i64"],
      [kind |-> "Str"], [kind |-> "Float"],
      [kind |-> "Adt", def |-> "S"], [kind |-> "Adt", def |-> "T"] }

TyCtors == {"Ref", "Array", "Slice"}

RECURSIVE TysUpTo(_)
TysUpTo(d) ==
    IF d = 0 THEN BaseTys
    ELSE BaseTys \cup { [kind |-> k, inner |-> t] : k \in TyCtors, t \in TysUpTo(d - 1) }

Ref(t) == [kind |-> "Ref", inner |-> t]

\* mutant: only a reference on the left-hand side is a mismatch
RECURSIVE match_borrow_depth_LhsOnly(_, _)
match_borrow_depth_LhsOnly(lhs, rhs) ==
    IF lhs.kind = "Ref" /\ rhs.kind = "Ref"
    THEN match_borrow_depth_LhsOnly(lhs.inner, rhs.inner)
    ELSE IF lhs.kind = "Ref" THEN FALSE ELSE TRUE

RECURSIVE match_borrow_depth(_, _)
match_borrow_depth(lhs, rhs) ==
    IF lhs.kind = "Ref" /\ rhs.kind = "Ref"
    THEN match_borrow_depth(lhs.inner, rhs.inner)
    ELSE IF lhs.kind = "Ref" \/ rhs.kind = "Ref" THEN FALSE ELSE TRUE

\* mutant: a reference on the left-hand side is looked through, as a deref
\* of the receiver would
RECURSIVE match_types_DerefLhs(_, _)
match_types_DerefLhs(lhs, rhs) ==
    IF lhs.kind \in {"Bool", "Char", "Int", "Uint", "Str"} /\ rhs.kind = lhs.kind
    THEN TRUE
    ELSE IF lhs.kind \in {"Ref", "Array", "Slice"} /\ rhs.kind = lhs.kind
    THEN match_types_DerefLhs(lhs.inner, rhs.inner)
    ELSE IF lhs.kind = "Ref"
    THEN match_types_DerefLhs(lhs.inner, rhs)
    ELSE IF lhs.kind = "Adt" /\ rhs.kind = "Adt"
    THEN lhs.def = rhs.def
    ELSE FALSE

RECURSIVE match_types(_, _)
match_types(lhs, rhs) ==
    IF lhs.kind \in {"Bool", "Char", "Int", "Uint", "Str"} /\ rhs.kind = lhs.kind
    THEN TRUE
    ELSE IF lhs.kind \in {"Ref", "Array", "Slice"} /\ rhs.kind = lhs.kind
    THEN match_types(lhs.inner, rhs.inner)
    ELSE IF lhs.kind = "Adt" /\ rhs.kind = "Adt"
    THEN lhs.def = rhs.def
    ELSE FALSE

\* TyKind's Display, for the kinds get_type_name does not look into
RECURSIVE ty_to_string(_)
ty_to_string(t) ==
    CASE t.kind = "Bool" -> "bool"
      [] t.kind = "Char" -> "char"
      [] t.kind = "Int" -> t.ity
      [] t.kind = "Uint" -> "u32"
      [] t.kind = "Str" -> "str"
      [] t.kind = "Float" -> "f64"
      [] t.kind = "Adt" -> t.def
      [] t.kind = "Ref" -> "&" \o ty_to_string(t.inner)
      [] t.kind = "Array" -> "[" \o ty_to_string(t.inner) \o "; N]"
      [] t.kind = "Slice" -> "[" \o ty_to_string(t.inner) \o "]"

RECURSIVE get_type_name(_)
get_type_name(kind) ==
    IF kind.kind = "Adt" THEN kind.def
    ELSE IF kind.kind = "Ref" THEN get_type_name(kind.inner)
    ELSE ty_to_string(kind)

----------------------------------------------------------------------------
(* HIR *)

Names == {"a", "b"}

\* closure parameter patterns: PatKind::Binding(ident), or any other pattern
Pats == { [node |-> "Binding", ident |-> n] : n \in Names } \cup { [node |-> "Tuple"] }

\* argument expressions.  ExprKind::Path(QPath::Resolved(qself, p)) carries
\* the segments of p; qself is TRUE for a qualified path (<T>::a)
ArgNodes ==
    { [node |-> "Path", qself |-> FALSE, segments |-> <<n>>] : n \in Names }
    \cup { [node |-> "Path", qself |-> FALSE, segments |-> <<"a", "b">>],
           [node |-> "Lit"] }

\* a path with a self type, as in <T>::a: it is no QPath::Resolved(None, _)
QSelfPath == [node |-> "Path", qself |-> TRUE, segments |-> <<"a">>]

IsPlainPath(e) == e.node = "Path" /\ ~e.qself

SeqsUpTo(S, n) == UNION { [1..k -> S] : k \in 0..n }

----------------------------------------------------------------------------
(* compare_inputs: zip stops at the shorter of the two sequences *)

\* mutant: the number of segments of the path is not looked at
PairMatches_AnySegments(closure_input, function_arg) ==
    /\ closure_input.node = "Binding"
    /\ IsPlainPath(function_arg)
    /\ function_arg.segments[1] = closure_input.ident

\* one pair of the zip: the body of the loop
PairMatches(closure_input, function_arg) ==
    /\ closure_input.node = "Binding"
    /\ IsPlainPath(function_arg)
    /\ Len(function_arg.segments) = 1
    /\ function_arg.segments[1] = closure_input.ident

compare_inputs(closure_inputs, call_args) ==
    \A i \in 1..Min(Len(closure_inputs), Len(call_args)) :
        PairMatches(closure_inputs[i], call_args[i])

----------------------------------------------------------------------------
(* The expressions check_closure is applied to *)

CallBodies(n) ==
    { [node |-> "Call", caller |-> "f", args |-> as] : as \in SeqsUpTo(ArgNodes, n) }

\* ExprKind::MethodCall(path, _, args): args[1] is the receiver
MethodCallBodies(n) ==
    { [node |-> "MethodCall", path |-> "m", args |-> as] :
        as \in SeqsUpTo(ArgNodes, n) \ {<<>>} }

OtherBody == [node |-> "Lit", args |-> <<>>]

Closures(n) ==
    { [node |-> "Closure", inputs |-> ps, body |-> b] :
        ps \in SeqsUpTo(Pats, n),
        b \in CallBodies(n) \cup MethodCallBodies(n) \cup {OtherBody} }

NoClosure == [node |-> "Lit", inputs |-> <<>>, body |-> OtherBody]

\* |a| f(<T>::a) and |a| <T>::a.m()
QSelfClosures ==
    { [node |-> "Closure", inputs |-> <<[node |-> "Binding", ident |-> "a"]>>, body |-> b] :
        b \in { [node |-> "Call", caller |-> "f", args |-> <<QSelfPath>>],
                [node |-> "MethodCall", path |-> "m", args |-> <<QSelfPath>>] } }

Exprs == Closures(MaxArity) \cup QSelfClosures \cup {NoClosure}

----------------------------------------------------------------------------
(* The answers of cx *)

FnTys == { [kind |-> "FnDef", unsafety |-> u] : u \in {"Normal", "Unsafe"} }

type_is_unsafe_function(ty) == ty.unsafety = "Unsafe"

\* snippet_opt(cx, caller.span)
Snippets == {None, Some("f"), Some("g::h")}

\* self types of the resolved method and of the receiver at the call site
\* (S, &S and &[i32]: a method of [i32] is reached from a &S by deref)
SelfTys ==
    { [kind |-> "Adt", def |-> "S"], Ref([kind |-> "Adt", def |-> "S"]),
      Ref([kind |-> "Slice", inner |-> [kind |-> "Int", ity |-> "i32"]]) }

\* what the method resolves to: cx.tcx.trait_of_item, cx.tcx.impl_of_method,
\* input 0 of cx.tcx.fn_sig and cx.tables.node_type of the receiver
Resolutions(tys) ==
    [ trait_of_item : {None, Some("Tr")},
      impl_of_method : {None, Some("impl")},
      expected_type_of_self : tys,
      actual_type_of_self : tys ]

NoResolution ==
    [ trait_of_item |-> None, impl_of_method |-> None,
      expected_type_of_self |-> [kind |-> "Bool"],
      actual_type_of_self |-> [kind |-> "Bool"] ]

Cx(ex_adjusted, args_adjusted, fn_ty, snippet, res) ==
    [ ex_adjusted |-> ex_adjusted, args_adjusted |-> args_adjusted,
      fn_ty |-> fn_ty, snippet |-> snippet, method |-> res ]

NoCx == Cx(FALSE, <<>>, [kind |-> "FnDef", unsafety |-> "Normal"], None, NoResolution)

----------------------------------------------------------------------------
(* get_ufcs_type_name *)

\* mutant: the trait branch asks for match_types
get_ufcs_type_name_TraitMatchTypes(res) ==
    IF res.trait_of_item.some
       /\ match_types(res.expected_type_of_self, res.actual_type_of_self)
    THEN Some(res.trait_of_item.val)
    ELSE IF res.impl_of_method.some
            /\ match_types(res.expected_type_of_self, res.actual_type_of_self)
    THEN Some(get_type_name(res.actual_type_of_self))
    ELSE None

\* mutant: the impl branch asks for match_borrow_depth
get_ufcs_type_name_ImplBorrowDepth(res) ==
    IF res.trait_of_item.some
       /\ match_borrow_depth(res.expected_type_of_self, res.actual_type_of_self)
    THEN Some(res.trait_of_item.val)
    ELSE IF res.impl_of_method.some
            /\ match_borrow_depth(res.expected_type_of_self, res.actual_type_of_self)
    THEN Some(get_type_name(res.actual_type_of_self))
    ELSE None

get_ufcs_type_name(res) ==
    IF res.trait_of_item.some
       /\ match_borrow_depth(res.expected_type_of_self, res.actual_type_of_self)
    THEN Some(res.trait_of_item.val)
    ELSE IF res.impl_of_method.some
            /\ match_types(res.expected_type_of_self, res.actual_type_of_self)
    THEN Some(get_type_name(res.actual_type_of_self))
    ELSE None

----------------------------------------------------------------------------
(* check_closure *)

Lint(suggestion) ==
    [ lint |-> "REDUNDANT_CLOSURE", msg |-> "redundant closure found",
      suggestion |-> suggestion ]

\* mutant: the scan starts one argument too late
AnyAdjusted_OffByOne(flags, from) == \E i \in (from + 1)..Len(flags) : flags[i]

\* args.iter().skip(from - 1).any(|arg| is_adjusted(cx, arg))
AnyAdjusted(flags, from) == \E i \in from..Len(flags) : flags[i]

\* mutant: the type of the method is not asked for
MethodCallForwards_NoUnsafeCheck(e, c) ==
    /\ e.body.node = "MethodCall"
    /\ Len(e.body.args) = Len(e.inputs)
    /\ ~(c.ex_adjusted \/ AnyAdjusted(c.args_adjusted, 2))
    /\ compare_inputs(e.inputs, e.body.args)

\* mutant: the scan for adjustments does not skip the receiver
MethodCallForwards_NoSkip(e, c) ==
    /\ e.body.node = "MethodCall"
    /\ Len(e.body.args) = Len(e.inputs)
    /\ ~(c.ex_adjusted \/ AnyAdjusted(c.args_adjusted, 1))
    /\ ~type_is_unsafe_function(c.fn_ty)
    /\ compare_inputs(e.inputs, e.body.args)

\* the conditions of the second if_chain that precede get_ufcs_type_name
MethodCallForwards(e, c) ==
    /\ e.body.node = "MethodCall"
    /\ Len(e.body.args) = Len(e.inputs)
    /\ ~(c.ex_adjusted \/ AnyAdjusted(c.args_adjusted, 2))
    /\ ~type_is_unsafe_function(c.fn_ty)
    /\ compare_inputs(e.inputs, e.body.args)

\* mutant: the lengths are not compared
CallLints_NoArityCheck(e, c) ==
    IF /\ e.body.node = "Call"
       /\ ~(c.ex_adjusted \/ AnyAdjusted(c.args_adjusted, 1))
       /\ ~type_is_unsafe_function(c.fn_ty)
       /\ compare_inputs(e.inputs, e.body.args)
    THEN <<Lint(c.snippet)>>
    ELSE <<>>

\* mutant: the suggestion is made of the text or, failing that, of nothing
CallLints_EmptySnippet(e, c) ==
    IF /\ e.body.node = "Call"
       /\ Len(e.body.args) = Len(e.inputs)
       /\ ~(c.ex_adjusted \/ AnyAdjusted(c.args_adjusted, 1))
       /\ ~type_is_unsafe_function(c.fn_ty)
       /\ compare_inputs(e.inputs, e.body.args)
    THEN <<Lint(IF c.snippet.some THEN c.snippet ELSE Some(""))>>
    ELSE <<>>

\* first if_chain: |params| caller(args)
CallLints(e, c) ==
    IF /\ e.body.node = "Call"
       /\ Len(e.body.args) = Len(e.inputs)
       /\ ~(c.ex_adjusted \/ AnyAdjusted(c.args_adjusted, 1))
       /\ ~type_is_unsafe_function(c.fn_ty)
       /\ compare_inputs(e.inputs, e.body.args)
    THEN <<Lint(c.snippet)>>
    ELSE <<>>

\* second if_chain: |params| receiver.path(args)
MethodCallLints(e, c) ==
    IF MethodCallForwards(e, c) /\ get_ufcs_type_name(c.method).some
    THEN <<Lint(Some(get_ufcs_type_name(c.method).val \o "::" \o e.body.path))>>
    ELSE <<>>

Lints(e, c) ==
    IF e.node = "Closure" THEN CallLints(e, c) \o MethodCallLints(e, c) ELSE <<>>

---------------------------------------------------------------------------------------------------------------------------------------------------
(* The contexts an expression can be checked in *)

AdjustedFlags(e) == [1..Len(e.body.args) -> BOOLEAN]

\* a method is resolved for the body of a closure that is a method call
MethodResolutions(e, tys) ==
    IF e.node = "Closure" /\ e.body.node = "MethodCall"
    THEN Resolutions(tys) ELSE {NoResolution}

\* snippet_opt is asked for the callee of a call
CalleeSnippets(e) ==
    IF e.node = "Closure" /\ e.body.node = "Call" THEN Snippets ELSE {None}

----------------------------------------------------------------------------
(* Actions *)

Init ==
    /\ expr = NoClosure
    /\ cx = NoCx
    /\ lints = <<>>
    /\ pc = "idle"

check_closure(e, c) ==
    /\ pc = "idle"
    /\ expr' = e
    /\ cx' = c
    /\ lints' = Lints(e, c)
    /\ pc' = "done"

\* check_closure on any expression, in any context
CheckAny(exprs, tys) ==
    /\ pc = "idle"
    /\ \E e \in exprs :
       \E x \in BOOLEAN, as \in AdjustedFlags(e), t \in FnTys, s \in CalleeSnippets(e) :
       \E r \in MethodResolutions(e, tys) :
          check_closure(e, Cx(x, as, t, s, r))

Next == CheckAny(Exprs, SelfTys)

Spec == Init /\ [][Next]_vars

\* |a| a.m(), the closure get_ufcs_type_name is reached from
SelfCall ==
    [ node |-> "Closure", inputs |-> <<[node |-> "Binding", ident |-> "a"]>>,
      body |-> [node |-> "MethodCall", path |-> "m",
                args |-> <<[node |-> "Path", qself |-> FALSE, segments |-> <<"a">>]>>] ]

NextTypes == CheckAny({SelfCall}, TysUpTo(MaxTyDepth))

SpecTypes == Init /\ [][NextTypes]_vars

----------------------------------------------------------------------------
(* Vocabulary of the properties *)

Done == pc = "done"

\* number of leading reference layers of a type
RECURSIVE RefDepth(_)
RefDepth(t) == IF t.kind = "Ref" THEN 1 + RefDepth(t.inner) ELSE 0

IsCallClosure == Done /\ expr.node = "Closure" /\ expr.body.node = "Call"

IsMethodCallClosure == Done /\ expr.node = "Closure" /\ expr.body.node = "MethodCall"

\* a finding was emitted for the closure
Emitted == lints # <<>>

\* |a1,...,an| callee(a1,...,an): as many arguments as parameters, every
\* parameter a binding and argument i the bare one-segment path naming it
ForwardsInOrder(ps, as) ==
    /\ Len(ps) = Len(as)
    /\ \A i \in 1..Len(ps) :
        /\ ps[i].node = "Binding"
        /\ as[i] = [node |-> "Path", qself |-> FALSE, segments |-> <<ps[i].ident>>]

Forwards == ForwardsInOrder(expr.inputs, expr.body.args)

Unsafe == cx.fn_ty.unsafety = "Unsafe"

ArgAdjusted(i) == i \in DOMAIN cx.args_adjusted /\ cx.args_adjusted[i]

\* some argument after the receiver is adjusted
RestAdjusted == \E i \in 2..Len(expr.body.args) : ArgAdjusted(i)

ExpectedSelf == cx.method.expected_type_of_self
ActualSelf == cx.method.actual_type_of_self

\* every condition of the method-call case but the adjustment of the
\* receiver and the synthesis of the name
MethodCallRedundant ==
    /\ IsMethodCallClosure
    /\ Forwards
    /\ ~Unsafe
    /\ ~cx.ex_adjusted
    /\ ~RestAdjusted

----------------------------------------------------------------------------
(* C1 *)

DirectCallCase ==
    /\ IsCallClosure
    /\ Forwards
    /\ ~Unsafe
    /\ ~cx.ex_adjusted
    /\ \A i \in 1..Len(expr.body.args) : ~ArgAdjusted(i)

\* C1 as stated: in the direct-call case a finding is emitted and it carries
\* a replacement text, the source text of the callee, whatever snippet_opt
\* answers
C1_ReplacementIsCalleeText ==
    DirectCallCase =>
        /\ Len(lints) = 1
        /\ lints[1].suggestion.some
        /\ lints[1].suggestion = cx.snippet

\* C1 amended: in the direct-call case exactly one finding is emitted; when
\* snippet_opt returns the callee's text the replacement is that text, and
\* when it returns none the finding carries no replacement
C1_FindingWithSnippetIfAny ==
    DirectCallCase =>
        /\ Len(lints) = 1
        /\ lints[1].lint = "REDUNDANT_CLOSURE"
        /\ lints[1].suggestion = cx.snippet

C1_Witness ==
    /\ DirectCallCase
    /\ Len(expr.inputs) = 2
    /\ cx.snippet = Some("g::h")
    /\ lints = <<Lint(Some("g::h"))>>

----------------------------------------------------------------------------
(* C2 *)

\* C2: a finding is emitted only if at every position the closure parameter
\* is a binding and the argument is the bare one-segment unqualified path of
\* the same name, the receiver being argument 1 of a method call; so
\* |a,b| f(b,a) yields no finding
C2_ExactInOrderForwarding ==
    (Done /\ Emitted) =>
        /\ \A i \in DOMAIN expr.inputs \cup DOMAIN expr.body.args :
            /\ i \in DOMAIN expr.inputs
            /\ i \in DOMAIN expr.body.args
            /\ expr.inputs[i].node = "Binding"
            /\ expr.body.args[i].node = "Path"
            /\ ~expr.body.args[i].qself
            /\ expr.body.args[i].segments = <<expr.inputs[i].ident>>
        /\ ~( /\ Len(expr.inputs) = 2
              /\ expr.inputs[1].node = "Binding"
              /\ expr.inputs[2].node = "Binding"
              /\ expr.inputs[1].ident # expr.inputs[2].ident
              /\ ForwardsInOrder(<<expr.inputs[2], expr.inputs[1]>>, expr.body.args) )

C2_Witness ==
    /\ IsMethodCallClosure
    /\ Emitted
    /\ Len(expr.inputs) = 2
    /\ expr.inputs[1].ident # expr.inputs[2].ident
    /\ expr.body.args[1].segments = <<expr.inputs[1].ident>>

----------------------------------------------------------------------------
(* C3 *)

\* C3: when the closure has not as many parameters as the call has
\* arguments (the receiver counted), no finding is emitted
C3_ArityMismatch ==
    (Done /\ expr.node = "Closure" /\ Len(expr.inputs) # Len(expr.body.args))
        => lints = <<>>

\* |a| f(a, b): compare_inputs alone accepts the matching prefix
C3_Witness ==
    /\ IsCallClosure
    /\ Len(expr.inputs) = 1
    /\ Len(expr.body.args) = 2
    /\ compare_inputs(expr.inputs, expr.body.args)
    /\ ~Unsafe /\ ~cx.ex_adjusted /\ ~ArgAdjusted(1) /\ ~ArgAdjusted(2)
    /\ lints = <<>>

----------------------------------------------------------------------------
(* C4 *)

\* C4: when the type of the callee, or of the resolved method, is an unsafe
\* function type, no finding is emitted
C4_UnsafeExclusion ==
    (Done /\ expr.node = "Closure" /\ Unsafe) => lints = <<>>

C4_Witness ==
    /\ IsMethodCallClosure
    /\ Unsafe
    /\ Forwards
    /\ ~cx.ex_adjusted /\ ~RestAdjusted
    /\ get_ufcs_type_name(cx.method).some
    /\ lints = <<>>

----------------------------------------------------------------------------
(* C5 *)

\* C5: when the call expression is adjusted, or an argument of a direct call
\* is, or an argument after the receiver of a method call is, no finding is
\* emitted
C5_CoercionExclusion ==
    ( /\ Done
      /\ expr.node = "Closure"
      /\ \/ cx.ex_adjusted
         \/ expr.body.node = "Call" /\ \E i \in 1..Len(expr.body.args) : ArgAdjusted(i)
         \/ expr.body.node = "MethodCall" /\ RestAdjusted )
        => lints = <<>>

C5_Witness ==
    /\ IsMethodCallClosure
    /\ Forwards
    /\ ~Unsafe /\ ~cx.ex_adjusted
    /\ ~ArgAdjusted(1) /\ ArgAdjusted(2)
    /\ get_ufcs_type_name(cx.method).some
    /\ lints = <<>>

----------------------------------------------------------------------------
(* C6 *)

\* C6 as stated: when the receiver of the method call is adjusted, no
\* finding is emitted
C6_ReceiverAdjustmentChecked ==
    (IsMethodCallClosure /\ ArgAdjusted(1)) => lints = <<>>

\* C6 amended: the adjustment of the receiver is not looked at.  With the
\* receiver adjusted a finding is emitted exactly when the other conditions
\* hold: equal arity, forwarded names, a safe method, no adjustment of the
\* call or of the arguments after the receiver, and a synthesized name
C6_ReceiverAdjustmentSkipped ==
    (IsMethodCallClosure /\ ArgAdjusted(1)) =>
        (Emitted <=> (MethodCallRedundant /\ get_ufcs_type_name(cx.method).some))

C6_Witness ==
    /\ IsMethodCallClosure
    /\ ArgAdjusted(1)
    /\ Len(expr.inputs) = 2
    /\ Emitted

----------------------------------------------------------------------------
(* C7 *)

\* C7: for |p0,...,pn| p0.m(p1,...,pn) with m declared on a trait, not
\* unsafe, the call and the arguments after the receiver not adjusted, and
\* as many reference layers on the receiver's type as on the declared self
\* type, one finding is emitted, with replacement "<trait path>::<method>"
C7_TraitMethod ==
    ( /\ MethodCallRedundant
      /\ cx.method.trait_of_item.some
      /\ RefDepth(ExpectedSelf) = RefDepth(ActualSelf) )
        => lints = <<Lint(Some(cx.method.trait_of_item.val \o "::" \o expr.body.path))>>

C7_Witness ==
    /\ MethodCallRedundant
    /\ cx.method.trait_of_item = Some("Tr")
    /\ ExpectedSelf # ActualSelf
    /\ RefDepth(ExpectedSelf) = 1
    /\ RefDepth(ActualSelf) = 1
    /\ lints = <<Lint(Some("Tr::m"))>>

----------------------------------------------------------------------------
(* C8 *)

\* C8: for a method of an inherent implementation and of no trait, the
\* other conditions holding, a finding is emitted if and only if match_types
\* accepts the declared self type and the type of the receiver; otherwise
\* nothing is emitted
C8_InherentMethod ==
    ( /\ MethodCallRedundant
      /\ ~cx.method.trait_of_item.some
      /\ cx.method.impl_of_method.some )
        => /\ Emitted <=> match_types(ExpectedSelf, ActualSelf)
           /\ Emitted => lints[1].suggestion = Some(get_type_name(ActualSelf) \o "::" \o expr.body.path)
           /\ ~match_types(ExpectedSelf, ActualSelf) => lints = <<>>

\* a method of [i32] called on a &S: same borrow depth, other type
C8_Witness ==
    /\ MethodCallRedundant
    /\ ~cx.method.trait_of_item.some
    /\ cx.method.impl_of_method.some
    /\ ExpectedSelf # ActualSelf
    /\ RefDepth(ExpectedSelf) = RefDepth(ActualSelf)
    /\ lints = <<>>

----------------------------------------------------------------------------
(* C9 *)

\* C9: for a method of a trait, get_ufcs_type_name returns a name only if
\* match_borrow_depth accepts the two self types, and the name is the path
\* of the trait, whatever impl_of_method answers
C9_TraitNameNeedsBorrowDepth ==
    (IsMethodCallClosure /\ cx.method.trait_of_item.some) =>
        /\ get_ufcs_type_name(cx.method).some =>
            /\ match_borrow_depth(ExpectedSelf, ActualSelf)
            /\ get_ufcs_type_name(cx.method) = cx.method.trait_of_item
        /\ Emitted =>
            /\ match_borrow_depth(ExpectedSelf, ActualSelf)
            /\ lints[1].suggestion = Some(cx.method.trait_of_item.val \o "::" \o expr.body.path)

\* the borrow depths differ and control falls through to a method of an impl
C9_Witness ==
    /\ MethodCallRedundant
    /\ cx.method.trait_of_item.some
    /\ cx.method.impl_of_method.some
    /\ ~match_borrow_depth(ExpectedSelf, ActualSelf)
    /\ ExpectedSelf.kind = "Ref"
    /\ ExpectedSelf.inner = ActualSelf
    /\ lints = <<>>

----------------------------------------------------------------------------
(* C10 *)

\* C10: match_borrow_depth holds exactly of two types with the same number
\* of leading reference layers; it is symmetric and does not look at the
\* types under the references
C10_BorrowDepth ==
    IsMethodCallClosure =>
        /\ match_borrow_depth(ExpectedSelf, ActualSelf)
            <=> RefDepth(ExpectedSelf) = RefDepth(ActualSelf)
        /\ match_borrow_depth(ExpectedSelf, ActualSelf)
            <=> match_borrow_depth(ActualSelf, ExpectedSelf)
        /\ (MethodCallRedundant /\ cx.method.trait_of_item.some /\ ~cx.method.impl_of_method.some)
            => (Emitted <=> RefDepth(ExpectedSelf) = RefDepth(ActualSelf))

C10_Witness ==
    /\ MethodCallRedundant
    /\ cx.method.trait_of_item.some
    /\ RefDepth(ExpectedSelf) = 2
    /\ RefDepth(ActualSelf) = 2
    /\ ExpectedSelf # ActualSelf
    /\ Emitted

====
